---- MODULE Spec2Model ----
(***************************************************************************)
(* A model of boost::fibers::fiber (include/boost/fiber/fiber.hpp): the    *)
(* move-only fiber handle, its construction protocol (create / store /    *)
(* start_), its ownership-transfer operations, and the placement of the    *)
(* fiber_context control block on top of the fiber's stack.                *)
(*                                                                         *)
(* The handle operations are owner-side operations of one carrier thread   *)
(* (pc is the owner's position); the fibers themselves run to completion   *)
(* under the scheduler (FiberFinish).  fiber::detach, fiber::join,         *)
(* fiber::start_ and class fiber_context are declared but not defined in   *)
(* fiber.hpp; they are modelled from the specification.                    *)
(***************************************************************************)
EXTENDS Integers, Sequences, FiniteSets

\* ---------------------------------------------------------------- bounds
NumHandles == 2      \* handle objects (storage slots) of the owner
MaxFibers  == 2      \* fibers created during one run
AddrBits   == 10     \* width of std::size_t / of an address in the model
SpSpan     == 70     \* top-of-stack addresses SpBase .. SpBase + SpSpan
SizeSpan   == 4      \* region sizes from sizeof(fiber_context) - SizeSpan up to
                     \* sizeof(fiber_context) + func_alignment + SizeSpan

\* The handle slots and fiber ids of the state.  The owner of Spec uses
\* OwnerHandles and creates at most MaxFibers fibers; the sorting scenario of
\* OrderSpec uses one handle and one fiber more.
OwnerHandles == 1 .. NumHandles
Handles  == 1 .. NumHandles + 1
FiberIds == 1 .. MaxFibers + 1
WordMod  == 2 ^ AddrBits
nullptr  == 0

\* fiber.hpp:53  constexpr std::size_t func_alignment = 64
func_alignment == 64

\* sizeof( fiber_context) is fixed by the build; the model draws it in Init.
FuncSizeMin == 40
FuncSizes == {FuncSizeMin, FuncSizeMin + 32}

VARIABLES
    impl_,        \* impl_[h]: the intrusive_ptr of handle h (nullptr or a fiber id)
    live,         \* live[h]: handle object h is constructed and not yet destroyed
    ctxs,         \* ctxs[c]: the fiber_context with id c
    sched,        \* the fiber_contexts handed to the scheduler by start_()
    aborted,      \* "none", "terminate" (std::terminate), "assert" (BOOST_ASSERT)
                  \* or "fault" (a crash after undefined behaviour)
    pc,           \* position of the owner: idle, inside a constructor, inside join()
    last,         \* the operation performed by the latest step
    func_size,    \* sizeof( fiber_context) of this build
    has_align,    \* TRUE: the std::align branch of create() is compiled
    placed,       \* stack_context and placement of the latest create()
    salloc,       \* the stack_contexts the StackAllocator in use can allocate
    new_props     \* the class of the fiber_properties object the scheduling
                  \* algorithm in use attaches to a new fiber (nullptr: none)

vars == << impl_, live, ctxs, sched, aborted, pc, last, func_size, has_align, placed,
           salloc, new_props >>

Idle   == [op |-> "idle", h |-> 0, st |-> "", tmp |-> nullptr]
Op(name, h, o) == [op |-> name, h |-> h, o |-> o]
NoPlacement == [sp |-> nullptr, size |-> 0, top |-> 0, total |-> 0]

\* ------------------------------------------------- fiber_context (external)
\* bool fiber_context::is_terminated()
is_terminated(c) == ctxs[c].terminated

\* fiber_context::id fiber_context::get_id(): a stable, distinct identity per
\* internal state; id() (default constructed) is the sentinel 0.
ctx_get_id(c) == c
no_id == 0

\* fiber_properties and the classes derived from it that scheduling algorithms
\* define: PropTypes[t] is the name of class t and BaseOf[t] its base class
\* (nullptr: none).
PropTypes == << "fiber_properties", "priority_props", "deadline_props", "urgent_props" >>
BaseOf    == << nullptr, 1, 1, 2 >>
PropIds   == 1 .. Len(PropTypes)

\* fiber_properties * fiber_context::get_properties(): the attached property
\* object (here: its dynamic type), or nullptr
get_properties(c) == ctxs[c].props

\* dynamic_cast< T & >( obj) succeeds when the dynamic type d of obj is T or
\* has T among its base classes.
RECURSIVE IsA(_, _)
IsA(d, T) == d # nullptr /\ (d = T \/ IsA(BaseOf[d], T))

\* ---------------------------------------------------- control-block placement
\* A plausible slip: an alignment that rounds the address down.
std_align_down(alignment, size, ptr, space) ==
    LET aligned == (ptr \div alignment) * alignment
        diff    == ptr - aligned
    IN  IF space < size \/ diff > space - size
        THEN [ptr |-> nullptr, space |-> space]
        ELSE [ptr |-> aligned, space |-> space - diff]

\* std::align( alignment, size, ptr, space): the first address >= ptr that is a
\* multiple of alignment, or nullptr when size bytes no longer fit in space.
std_align(alignment, size, ptr, space) ==
    LET aligned == ((ptr + alignment - 1) \div alignment) * alignment
        diff    == aligned - ptr
    IN  IF space < size \/ diff > space - size
        THEN [ptr |-> nullptr, space |-> space]
        ELSE [ptr |-> aligned, space |-> space - diff]

\* A plausible slip: reserve only func_size bytes below the top before aligning.
create_aligned_short(sctx) ==
    LET sp0   == sctx.sp - func_size
        space == func_size + func_alignment
        al    == std_align(func_alignment, func_size, sp0, space)
        sp    == al.ptr
    IN  [sp |-> sp, size |-> (sctx.size - (sctx.sp - sp)) % WordMod,
         top |-> sctx.sp, total |-> sctx.size]

\* A plausible slip: the space handed to std::align leaves out the slack.
create_aligned_nospace(sctx) ==
    LET sp0   == sctx.sp - func_size - func_alignment
        space == func_size
        al    == std_align(func_alignment, func_size, sp0, space)
        sp    == al.ptr
    IN  [sp |-> sp, size |-> (sctx.size - (sctx.sp - sp)) % WordMod,
         top |-> sctx.sp, total |-> sctx.size]

\* fiber::create, #else branch (lines 53-62): reserve func_size + func_alignment
\* bytes below the top of the stack, align, and compute the remaining size.
create_aligned(sctx) ==
    LET sp0   == sctx.sp - func_size - func_alignment
        space == func_size + func_alignment
        al    == std_align(func_alignment, func_size, sp0, space)
        sp    == al.ptr
    IN  [sp |-> sp, size |-> (sctx.size - (sctx.sp - sp)) % WordMod,
         top |-> sctx.sp, total |-> sctx.size]

\* fiber::create, #if branch (lines 49-51): no std::align available.
create_fallback(sctx) ==
    [sp |-> sctx.sp - func_size, size |-> (sctx.size - func_size) % WordMod,
     top |-> sctx.sp, total |-> sctx.size]

\* The placement computed by fiber::create for the stack_context sctx.
create(sctx) == IF has_align THEN create_aligned(sctx) ELSE create_fallback(sctx)

\* The placement pl starts below the base of its stack.
TooSmall(pl) == pl.sp < pl.top - pl.total

\* ------------------------------------------------------------- allocators
SpBase == 256
\* fixedsize_stack(): the default allocator of fiber( Fn &&, Args && ...)
FixedSize == 224
FixedStacks == { [sp |-> t, size |-> FixedSize] : t \in {SpBase + 64, SpBase + 100} }
\* any StackAllocator passed with std::allocator_arg
AnyStacks(fs) ==
    { [sp |-> t, size |-> s] :
        t \in SpBase .. SpBase + SpSpan,
        s \in (fs - SizeSpan) .. (fs + func_alignment + SizeSpan) }

\* ------------------------------------------------------------------ handle
\* bool fiber::joinable() with the disabled test enabled: a plausible slip.
joinable_live(h) == nullptr # impl_[h] /\ ~ is_terminated(impl_[h])

\* bool fiber::joinable() const noexcept
joinable(h) == nullptr # impl_[h]

\* id fiber::get_id() const noexcept
get_id(h) == IF impl_[h] # nullptr THEN ctx_get_id(impl_[h]) ELSE no_id

\* A plausible slip: the comparison is written with <=.
operator_less_eq(l, r) == get_id(l) <= get_id(r)

\* bool operator<( fiber const& l, fiber const& r)
operator_less(l, r) == get_id(l) < get_id(r)

\* explicit fiber::operator bool() const noexcept
operator_bool(h) == impl_[h] # nullptr /\ ~ is_terminated(impl_[h])

\* operator! written as "not joinable": a plausible slip.
operator_not_joinable(h) == ~ (impl_[h] # nullptr)

\* bool fiber::operator!() const noexcept
operator_not(h) == ~ (impl_[h] # nullptr) \/ is_terminated(impl_[h])

\* intrusive_ptr::swap on the impl_ members of handles a and b
ptr_swap(im, a, b) == [im EXCEPT ![a] = im[b], ![b] = im[a]]

Running == aborted = "none"
OwnerIdle == Running /\ pc.op = "idle"

TypeOK ==
    /\ impl_ \in [Handles -> {nullptr} \cup FiberIds]
    /\ live \in [Handles -> BOOLEAN]
    /\ Len(ctxs) <= MaxFibers + 1
    /\ sched \subseteq 1 .. Len(ctxs)
    /\ aborted \in {"none", "terminate", "assert", "fault"}
    /\ func_size \in FuncSizes
    /\ has_align \in BOOLEAN
    /\ new_props \in {nullptr} \cup PropIds

\* The state after program start: no handle constructed, no fiber created.
InitCommon ==
    /\ impl_ = [h \in Handles |-> nullptr]
    /\ live = [h \in Handles |-> FALSE]
    /\ ctxs = << >>
    /\ sched = {}
    /\ aborted = "none"
    /\ pc = Idle
    /\ last = Op("init", 0, 0)
    /\ placed = NoPlacement

\* A build with std::align; handles are constructed with the default allocator
\* fixedsize_stack().
Init ==
    /\ InitCommon
    /\ func_size = FuncSizeMin
    /\ has_align = TRUE
    /\ salloc = FixedStacks
    /\ new_props = nullptr

\* Any build; handles are constructed with std::allocator_arg and a
\* StackAllocator whose stacks have some top-of-stack address and some size.
InitCreate ==
    /\ InitCommon
    /\ func_size \in FuncSizes
    /\ has_align \in BOOLEAN
    /\ \E sctx \in AnyStacks(func_size) : salloc = {sctx}
    /\ new_props = nullptr

\* A build with std::align and the default allocator, run under a scheduling
\* algorithm without properties or with properties of some class.
InitProps ==
    /\ InitCommon
    /\ func_size = FuncSizeMin
    /\ has_align = TRUE
    /\ salloc = FixedStacks
    /\ new_props \in {nullptr} \cup PropIds

\* ------------------------------------------------------------ construction
\* fiber() noexcept
DefaultCtor(h) ==
    /\ OwnerIdle /\ ~ live[h]
    /\ impl_' = [impl_ EXCEPT ![h] = nullptr]
    /\ live' = [live EXCEPT ![h] = TRUE]
    /\ last' = Op("default_ctor", h, 0)
    /\ UNCHANGED << ctxs, sched, aborted, pc, func_size, has_align, placed, salloc, new_props >>

\* fiber( std::allocator_arg_t, StackAllocator, Fn &&, Args && ...), first step:
\* the member initializer evaluates create( salloc, fn, args ...): one stack is
\* allocated, the placement is computed, BOOST_ASSERT( nullptr != sp) is checked
\* and the fiber_context is constructed in place.  create() makes no other
\* test: on a stack too small for the placement the placement new writes below
\* the base of the stack, which is undefined: the construction goes through or
\* the program crashes.
CtorCreate(h, sctx) ==
    /\ OwnerIdle /\ ~ live[h]
    /\ sctx \in salloc
    /\ placed' = create(sctx)
    /\ \/ /\ placed'.sp = nullptr
          /\ aborted' = "assert"
          /\ UNCHANGED << ctxs, pc >>
       \/ /\ placed'.sp # nullptr
          /\ ctxs' = Append(ctxs, [terminated |-> FALSE, rel |-> "none", starts |-> 0,
                                  props |-> new_props])
          /\ pc' = [op |-> "ctor", h |-> h, st |-> "created", tmp |-> Len(ctxs) + 1]
          /\ UNCHANGED aborted
       \/ /\ placed'.sp # nullptr /\ TooSmall(placed')
          /\ aborted' = "fault"
          /\ UNCHANGED << ctxs, pc >>
    /\ last' = Op("ctor_create", h, 0)
    /\ UNCHANGED << impl_, live, sched, func_size, has_align, salloc, new_props >>

\* second step: impl_ is initialized from the pointer create() returned
CtorStore ==
    /\ Running /\ pc.op = "ctor" /\ pc.st = "created"
    /\ impl_' = [impl_ EXCEPT ![pc.h] = pc.tmp]
    /\ pc' = [pc EXCEPT !.st = "stored", !.tmp = nullptr]
    /\ last' = Op("ctor_store", pc.h, 0)
    /\ UNCHANGED << live, ctxs, sched, aborted, func_size, has_align, placed, salloc, new_props >>

\* void fiber::start_(): hands the fiber_context of handle h to the scheduler
start_(h) ==
    /\ sched' = sched \cup {impl_[h]}
    /\ ctxs' = [ctxs EXCEPT ![impl_[h]].starts = @ + 1]

\* A plausible slip: the constructor body forgets start_().
CtorStart_missing ==
    /\ Running /\ pc.op = "ctor" /\ pc.st = "stored"
    /\ UNCHANGED << sched, ctxs >>
    /\ live' = [live EXCEPT ![pc.h] = TRUE]
    /\ pc' = Idle
    /\ last' = Op("ctor", pc.h, 0)
    /\ UNCHANGED << impl_, aborted, func_size, has_align, placed, salloc, new_props >>

\* third step: the constructor body calls start_() and the constructor returns
CtorStart ==
    /\ Running /\ pc.op = "ctor" /\ pc.st = "stored"
    /\ start_(pc.h)
    /\ live' = [live EXCEPT ![pc.h] = TRUE]
    /\ pc' = Idle
    /\ last' = Op("ctor", pc.h, 0)
    /\ UNCHANGED << impl_, aborted, func_size, has_align, placed, salloc, new_props >>

\* --------------------------------------------------------------- destruction
\* A plausible slip: the destructor tests the boolean conversion.
Destroy_if_running(h) ==
    /\ OwnerIdle /\ live[h]
    /\ IF operator_bool(h)
       THEN aborted' = "terminate" /\ UNCHANGED << live, impl_ >>
       ELSE /\ live' = [live EXCEPT ![h] = FALSE]
            /\ impl_' = [impl_ EXCEPT ![h] = nullptr]
            /\ UNCHANGED aborted
    /\ last' = Op("destroy", h, 0)
    /\ UNCHANGED << ctxs, sched, pc, func_size, has_align, placed, salloc, new_props >>

\* A plausible slip: the test of the destructor is inverted.
Destroy_inverted(h) ==
    /\ OwnerIdle /\ live[h]
    /\ IF ~ joinable(h)
       THEN aborted' = "terminate" /\ UNCHANGED << live, impl_ >>
       ELSE /\ live' = [live EXCEPT ![h] = FALSE]
            /\ impl_' = [impl_ EXCEPT ![h] = nullptr]
            /\ UNCHANGED aborted
    /\ last' = Op("destroy", h, 0)
    /\ UNCHANGED << ctxs, sched, pc, func_size, has_align, placed, salloc, new_props >>

\* fiber::~fiber(): std::terminate() if joinable(); otherwise the member impl_
\* (a null intrusive_ptr) is destroyed and the object's lifetime ends.
Destroy(h) ==
    /\ OwnerIdle /\ live[h]
    /\ IF joinable(h)
       THEN aborted' = "terminate" /\ UNCHANGED << live, impl_ >>
       ELSE /\ live' = [live EXCEPT ![h] = FALSE]
            /\ UNCHANGED << aborted, impl_ >>
    /\ last' = Op("destroy", h, 0)
    /\ UNCHANGED << ctxs, sched, pc, func_size, has_align, placed, salloc, new_props >>

\* ------------------------------------------------------------------- moves
\* A plausible slip: the move constructor copies the pointer.
MoveCtor_copy(h, other) ==
    /\ OwnerIdle /\ ~ live[h] /\ live[other]
    /\ impl_' = [impl_ EXCEPT ![h] = impl_[other]]
    /\ live' = [live EXCEPT ![h] = TRUE]
    /\ last' = Op("move_ctor", h, other)
    /\ UNCHANGED << ctxs, sched, aborted, pc, func_size, has_align, placed, salloc, new_props >>

\* fiber( fiber && other) noexcept: impl_() then impl_.swap( other.impl_)
MoveCtor(h, other) ==
    /\ OwnerIdle /\ ~ live[h] /\ live[other]
    /\ impl_' = ptr_swap([impl_ EXCEPT ![h] = nullptr], h, other)
    /\ live' = [live EXCEPT ![h] = TRUE]
    /\ last' = Op("move_ctor", h, other)
    /\ UNCHANGED << ctxs, sched, aborted, pc, func_size, has_align, placed, salloc, new_props >>

\* A plausible slip: the pointers are exchanged before the joinable() test.
MoveAssign_swap_first(h, other) ==
    /\ OwnerIdle /\ live[h] /\ live[other]
    /\ IF joinable(h)
       THEN /\ aborted' = "terminate"
            /\ impl_' = ptr_swap(impl_, h, other)
       ELSE /\ impl_' = IF h # other THEN ptr_swap(impl_, h, other) ELSE impl_
            /\ UNCHANGED aborted
    /\ last' = Op("move_assign", h, other)
    /\ UNCHANGED << live, ctxs, sched, pc, func_size, has_align, placed, salloc, new_props >>

\* A plausible slip: the assignment copies the pointer and keeps the source.
MoveAssign_copy(h, other) ==
    /\ OwnerIdle /\ live[h] /\ live[other]
    /\ IF joinable(h)
       THEN aborted' = "terminate" /\ UNCHANGED impl_
       ELSE /\ impl_' = [impl_ EXCEPT ![h] = impl_[other]]
            /\ UNCHANGED aborted
    /\ last' = Op("move_assign", h, other)
    /\ UNCHANGED << live, ctxs, sched, pc, func_size, has_align, placed, salloc, new_props >>

\* A plausible slip: the self-assignment test comes before the joinable() test.
MoveAssign_self_first(h, other) ==
    /\ OwnerIdle /\ live[h] /\ live[other]
    /\ IF h = other
       THEN UNCHANGED << aborted, impl_ >>
       ELSE IF joinable(h)
            THEN aborted' = "terminate" /\ UNCHANGED impl_
            ELSE impl_' = ptr_swap(impl_, h, other) /\ UNCHANGED aborted
    /\ last' = Op("move_assign", h, other)
    /\ UNCHANGED << live, ctxs, sched, pc, func_size, has_align, placed, salloc, new_props >>

\* A plausible slip: the assignment overwrites the destination without the
\* joinable() test; the reference the destination held is dropped.
MoveAssign_overwrite(h, other) ==
    /\ OwnerIdle /\ live[h] /\ live[other]
    /\ impl_' = IF h # other
                THEN [impl_ EXCEPT ![h] = impl_[other], ![other] = nullptr]
                ELSE impl_
    /\ UNCHANGED aborted
    /\ last' = Op("move_assign", h, other)
    /\ UNCHANGED << live, ctxs, sched, pc, func_size, has_align, placed, salloc, new_props >>

\* fiber & operator=( fiber && other) noexcept (h is *this; h = other is the
\* self-assignment)
MoveAssign(h, other) ==
    /\ OwnerIdle /\ live[h] /\ live[other]
    /\ IF joinable(h)
       THEN aborted' = "terminate" /\ UNCHANGED impl_
       ELSE /\ impl_' = IF h # other THEN ptr_swap(impl_, h, other) ELSE impl_
            /\ UNCHANGED aborted
    /\ last' = Op("move_assign", h, other)
    /\ UNCHANGED << live, ctxs, sched, pc, func_size, has_align, placed, salloc, new_props >>

\* A plausible slip: swap guards its destination like the move-assignment.
Swap_like_assign(h, other) ==
    /\ OwnerIdle /\ live[h] /\ live[other]
    /\ IF joinable(h) /\ joinable(other)
       THEN aborted' = "terminate" /\ UNCHANGED impl_
       ELSE impl_' = ptr_swap(impl_, h, other) /\ UNCHANGED aborted
    /\ last' = Op("swap", h, other)
    /\ UNCHANGED << live, ctxs, sched, pc, func_size, has_align, placed, salloc, new_props >>

\* void fiber::swap( fiber & other) noexcept
Swap(h, other) ==
    /\ OwnerIdle /\ live[h] /\ live[other]
    /\ impl_' = ptr_swap(impl_, h, other)
    /\ last' = Op("swap", h, other)
    /\ UNCHANGED << live, ctxs, sched, aborted, pc, func_size, has_align, placed, salloc, new_props >>

\* void swap( fiber & l, fiber & r): l.swap( r)
FreeSwap(l, r) ==
    /\ OwnerIdle /\ live[l] /\ live[r]
    /\ impl_' = ptr_swap(impl_, l, r)
    /\ last' = Op("free_swap", l, r)
    /\ UNCHANGED << live, ctxs, sched, aborted, pc, func_size, has_align, placed, salloc, new_props >>

\* ------------------------------------------------------------ detach / join
\* void fiber::detach(), called on a joinable handle: ownership is given up
\* without waiting; the fiber stays with the scheduler.
Detach(h) ==
    /\ OwnerIdle /\ live[h] /\ joinable(h)
    /\ ctxs' = [ctxs EXCEPT ![impl_[h]].rel = "detached"]
    /\ impl_' = [impl_ EXCEPT ![h] = nullptr]
    /\ last' = Op("detach", h, 0)
    /\ UNCHANGED << live, sched, aborted, pc, func_size, has_align, placed, salloc, new_props >>

\* void fiber::join(), called on a joinable handle: the caller is suspended ...
JoinCall(h) ==
    /\ OwnerIdle /\ live[h] /\ joinable(h)
    /\ pc' = [op |-> "join", h |-> h, st |-> "", tmp |-> nullptr]
    /\ last' = Op("join_call", h, 0)
    /\ UNCHANGED << impl_, live, ctxs, sched, aborted, func_size, has_align, placed, salloc, new_props >>

\* ... until the referenced fiber_context reports termination; then the
\* reference is released and join() returns.
JoinReturn ==
    /\ Running /\ pc.op = "join"
    /\ is_terminated(impl_[pc.h])
    /\ ctxs' = [ctxs EXCEPT ![impl_[pc.h]].rel = "joined"]
    /\ impl_' = [impl_ EXCEPT ![pc.h] = nullptr]
    /\ pc' = Idle
    /\ last' = Op("join", pc.h, 0)
    /\ UNCHANGED << live, sched, aborted, func_size, has_align, placed, salloc, new_props >>

\* ----------------------------------------------------------------- properties
\* A plausible slip: the property object is narrowed with an unchecked cast.
Properties_static_cast(h, T) ==
    /\ OwnerIdle /\ live[h]
    /\ IF impl_[h] = nullptr
       THEN aborted' \in {"assert", "fault"} /\ last' = Op("properties", h, T)
       ELSE IF get_properties(impl_[h]) = nullptr
            THEN aborted' = "assert" /\ last' = Op("properties", h, T)
            ELSE UNCHANGED aborted /\ last' = Op("properties", h, T)
    /\ UNCHANGED << impl_, live, ctxs, sched, pc, func_size, has_align, placed,
                    salloc, new_props >>

\* PROPS & fiber::properties< PROPS >(), with PROPS the class T.
\* impl_->get_properties() is called with no test of impl_: on an Empty handle
\* the null intrusive_ptr is dereferenced, which is undefined (intrusive_ptr
\* asserts in a debug build; otherwise the access faults).  Then
\* BOOST_ASSERT_MSG( props, ...) and dynamic_cast< PROPS & >( * props), which
\* throws std::bad_cast to the caller on a mismatch ("bad_cast") and returns
\* the reference otherwise ("properties").
Properties(h, T) ==
    /\ OwnerIdle /\ live[h]
    /\ IF impl_[h] = nullptr
       THEN aborted' \in {"assert", "fault"} /\ last' = Op("properties", h, T)
       ELSE IF get_properties(impl_[h]) = nullptr
            THEN aborted' = "assert" /\ last' = Op("properties", h, T)
            ELSE IF IsA(get_properties(impl_[h]), T)
                 THEN UNCHANGED aborted /\ last' = Op("properties", h, T)
                 ELSE UNCHANGED aborted /\ last' = Op("bad_cast", h, T)
    /\ UNCHANGED << impl_, live, ctxs, sched, pc, func_size, has_align, placed,
                    salloc, new_props >>

\* ----------------------------------------------------------------- scheduler
\* The scheduler runs fiber c, which it knows through start_(), until its
\* callable returns: the fiber_context becomes terminated.
FiberFinish(c) ==
    /\ Running
    /\ c \in sched /\ ~ is_terminated(c)
    /\ ctxs' = [ctxs EXCEPT ![c].terminated = TRUE]
    /\ last' = Op("run", 0, c)
    /\ UNCHANGED << impl_, live, sched, aborted, pc, func_size, has_align, placed, salloc, new_props >>

Next ==
    \/ \E h \in OwnerHandles : DefaultCtor(h)
    \/ \E h \in OwnerHandles : \E sctx \in salloc :
          Len(ctxs) < MaxFibers /\ CtorCreate(h, sctx)
    \/ CtorStore
    \/ CtorStart
    \/ \E h \in OwnerHandles : Destroy(h)
    \/ \E h \in OwnerHandles : \E other \in OwnerHandles \ {h} : MoveCtor(h, other)
    \/ \E h \in OwnerHandles : \E other \in OwnerHandles : MoveAssign(h, other)
    \/ \E h \in OwnerHandles : \E other \in OwnerHandles : Swap(h, other)
    \/ \E l \in OwnerHandles : \E r \in OwnerHandles : FreeSwap(l, r)
    \/ \E h \in OwnerHandles : Detach(h)
    \/ \E h \in OwnerHandles : JoinCall(h)
    \/ JoinReturn
    \/ \E c \in FiberIds : FiberFinish(c)

Spec == Init /\ [][Next]_vars

\* Fairness of the scheduler: a fiber handed to it eventually finishes its
\* callable, and a caller waiting in join() is resumed once its target is done.
FairSpec ==
    /\ Spec
    /\ WF_vars(\E c \in FiberIds : FiberFinish(c))
    /\ WF_vars(JoinReturn)

\* create() explored over the stacks of an arbitrary StackAllocator: one handle
\* is constructed with std::allocator_arg, detached and destroyed, repeatedly.
NextCreate ==
    \/ \E sctx \in salloc : Len(ctxs) < MaxFibers /\ CtorCreate(1, sctx)
    \/ CtorStore
    \/ CtorStart
    \/ Detach(1)
    \/ Destroy(1)

CreateSpec == InitCreate /\ [][NextCreate]_vars

\* Handles kept for sorting: one fiber more than in Spec is created, each by
\* its own handle, the handles being constructed in any order; handles give
\* their fibers up, and the fibers finish in any order.
NextOrder ==
    \/ \E h \in Handles : \E sctx \in salloc :
          Len(ctxs) < MaxFibers + 1 /\ CtorCreate(h, sctx)
    \/ CtorStore
    \/ CtorStart
    \/ \E h \in Handles : Detach(h)
    \/ \E c \in FiberIds : FiberFinish(c)

OrderSpec == Init /\ [][NextOrder]_vars

\* The handle protocol under a scheduling algorithm with or without
\* properties, with calls of properties< T >() for every class T.
NextProps ==
    \/ \E h \in OwnerHandles : DefaultCtor(h)
    \/ \E h \in OwnerHandles : \E sctx \in salloc :
          Len(ctxs) < MaxFibers /\ CtorCreate(h, sctx)
    \/ CtorStore
    \/ CtorStart
    \/ \E h \in OwnerHandles : \E T \in PropIds : Properties(h, T)
    \/ \E h \in OwnerHandles : \E other \in OwnerHandles \ {h} : MoveCtor(h, other)
    \/ \E h \in OwnerHandles : Detach(h)
    \/ \E h \in OwnerHandles : Destroy(h)
    \/ \E c \in FiberIds : FiberFinish(c)

PropSpec == InitProps /\ [][NextProps]_vars

\* ====================================================================== claims
MoveOps == {"move_ctor", "move_assign"}
SwapOps == {"swap", "free_swap"}

\* C1: a step of ~fiber() ends in std::terminate exactly when the destroyed
\* handle referenced an internal state at that moment (whether or not that
\* fiber has finished); destroying an Empty handle never terminates.
C1_DestroyTerminatesIffJoinable ==
    [][ last'.op = "destroy" =>
          /\ (aborted' = "terminate") <=> (impl_[last'.h] # nullptr)
          /\ impl_[last'.h] = nullptr => aborted' = "none" /\ ~ live'[last'.h]
      ]_vars

\* C1 witness: a handle whose fiber has already finished was destroyed while it
\* still referenced the fiber, and the program was terminated.
C1_Witness ==
    /\ last.op = "destroy" /\ aborted = "terminate"
    /\ impl_[last.h] # nullptr /\ is_terminated(impl_[last.h])

\* C2: move-assignment into a destination that references an internal state
\* ends in std::terminate, and no handle's reference has changed at that point.
C2_MoveAssignJoinableTerminates ==
    [][ (last'.op = "move_assign" /\ impl_[last'.h] # nullptr) =>
          (aborted' = "terminate" /\ impl_' = impl_)
      ]_vars

\* C2 witness: a joinable handle was move-assigned from another joinable
\* handle; the program terminated with both references in place.
C2_Witness ==
    /\ last.op = "move_assign" /\ aborted = "terminate"
    /\ last.h # last.o
    /\ impl_[last.h] # nullptr /\ impl_[last.o] # nullptr

\* C3: after move construction, and after move-assignment into an Empty
\* destination, the source is Empty, the destination holds the reference the
\* source held, and get_id() of the destination is the source's former get_id().
C3_MoveTransfers ==
    [][ \A d \in Handles : \A s \in Handles :
          ( /\ last'.h = d /\ last'.o = s
            /\ \/ last'.op = "move_ctor"
               \/ last'.op = "move_assign" /\ impl_[d] = nullptr )
          => /\ aborted' = "none"
             /\ impl_'[s] = nullptr
             /\ impl_'[d] = impl_[s]
             /\ get_id(d)' = get_id(s)
      ]_vars

\* C3 witness: a move-assignment into an Empty handle has just transferred a
\* reference from another handle.
C3_Witness ==
    /\ last.op = "move_assign" /\ aborted = "none"
    /\ last.h # last.o
    /\ impl_[last.h] # nullptr /\ impl_[last.o] = nullptr

\* C4: every internal state is referenced by at most one handle (the temporary
\* returned by create() counts as a handle until it is stored).
C4_ExclusiveOwnership ==
    /\ \A h1 \in Handles : \A h2 \in Handles :
          (h1 # h2 /\ impl_[h1] # nullptr) => impl_[h1] # impl_[h2]
    /\ \A h \in Handles : pc.tmp # nullptr => impl_[h] # pc.tmp

\* C4 witness: two joinable handles have just exchanged their references.
C4_Witness ==
    /\ last.op \in SwapOps /\ last.h # last.o
    /\ impl_[last.h] # nullptr /\ impl_[last.o] # nullptr

\* C5: joinable() holds exactly when the handle references an internal state,
\* whatever its termination flag; it holds when the constructor with a callable
\* returns; a fiber finishing changes no handle's joinable(); and a handle stops
\* being joinable only by join(), detach(), or a transfer of its reference away
\* (as the source of a move, or as an operand of swap).
C5_JoinableIffReferenced ==
    [][ /\ \A h \in Handles : joinable(h) <=> (impl_[h] # nullptr)
        /\ \A h \in Handles : (last'.op = "ctor" /\ last'.h = h) => joinable(h)'
        /\ last'.op = "run" => \A h \in Handles : joinable(h)' <=> joinable(h)
        /\ \A h \in Handles :
             (joinable(h) /\ ~ joinable(h)') =>
                \/ last'.op \in {"join", "detach"} /\ last'.h = h
                \/ last'.op \in MoveOps /\ last'.o = h
                \/ last'.op \in SwapOps /\ h \in {last'.h, last'.o}
      ]_vars

\* C5 witness: the fiber of a live handle has just finished and the handle is
\* still joinable.
C5_Witness ==
    /\ last.op = "run"
    /\ \E h \in Handles :
          live[h] /\ impl_[h] = last.o /\ is_terminated(last.o) /\ joinable(h)

\* C6: the boolean conversion is true exactly for a handle referencing a fiber
\* that has not terminated, and operator! is its complement in every state.
C6_BoolConversion ==
    \A h \in Handles :
        /\ operator_bool(h) <=> (impl_[h] # nullptr /\ ~ ctxs[impl_[h]].terminated)
        /\ impl_[h] = nullptr => ~ operator_bool(h)
        /\ operator_not(h) <=> ~ operator_bool(h)

\* C6 witness: a joinable handle whose fiber has terminated converts to false.
C6_Witness ==
    \E h \in Handles :
        /\ live[h] /\ joinable(h) /\ is_terminated(impl_[h])
        /\ ~ operator_bool(h) /\ operator_not(h)

\* C7: the constructor with a callable runs create(), then stores the returned
\* reference, then calls start_(), each once, before it returns: between
\* create() and the store the new state is unreferenced by the handle and
\* unknown to the scheduler; between the store and start_() it is referenced
\* and still unknown to the scheduler; and every reference held by a
\* constructed handle is to a fiber handed to the scheduler exactly once.
C7_ConstructorOrder ==
    /\ (pc.op = "ctor" /\ pc.st = "created") =>
          /\ pc.tmp = Len(ctxs) /\ impl_[pc.h] = nullptr
          /\ pc.tmp \notin sched /\ ctxs[pc.tmp].starts = 0
    /\ (pc.op = "ctor" /\ pc.st = "stored") =>
          /\ impl_[pc.h] = Len(ctxs) /\ ~ live[pc.h]
          /\ impl_[pc.h] \notin sched /\ ctxs[impl_[pc.h]].starts = 0
    /\ last.op = "ctor" =>
          /\ live[last.h] /\ impl_[last.h] = Len(ctxs)
          /\ impl_[last.h] \in sched /\ ctxs[impl_[last.h]].starts = 1
    /\ \A h \in Handles :
          (live[h] /\ impl_[h] # nullptr) =>
              (impl_[h] \in sched /\ ctxs[impl_[h]].starts = 1)
    /\ \A c \in 1 .. Len(ctxs) :
          /\ ctxs[c].starts <= 1
          /\ (c \in sched) <=> (ctxs[c].starts = 1)

\* C7 witness: the constructor of a second fiber has just returned.
C7_Witness ==
    /\ last.op = "ctor" /\ Len(ctxs) = 2
    /\ joinable(last.h) /\ impl_[last.h] \in sched

\* C8: join() on a joinable handle keeps the caller suspended until the
\* referenced fiber has terminated and only then returns; on return the handle
\* is Empty and destroying it next does not terminate the program; and under
\* the fair scheduler a caller suspended in join() eventually resumes.
C8_JoinWaitsThenEmpties ==
    /\ [][ /\ pc.op = "join" => last'.op \in {"run", "join"}
           /\ \A h \in Handles :
                (last'.op = "join" /\ last'.h = h) =>
                    /\ pc.op = "join" /\ pc.h = h
                    /\ impl_[h] # nullptr /\ is_terminated(impl_[h])
                    /\ impl_'[h] = nullptr /\ ~ joinable(h)'
                    /\ pc'.op = "idle"
           /\ (last.op = "join" /\ last'.op = "destroy" /\ last'.h = last.h) =>
                (aborted' = "none" /\ ~ live'[last'.h])
         ]_vars
    /\ (pc.op = "join") ~> (pc.op = "idle")

\* C8 witness: join() has returned for a fiber and left its handle Empty.
C8_Witness ==
    /\ last.op = "join" /\ live[last.h] /\ impl_[last.h] = nullptr
    /\ \E c \in 1 .. Len(ctxs) : ctxs[c].rel = "joined" /\ ctxs[c].terminated

\* C9: detach() returns at once (the fiber's termination flag is untouched and
\* the caller is not suspended) and leaves the handle Empty; the fiber stays
\* known to the scheduler and, while unfinished, can still be run to
\* completion; its completion changes no handle; and destroying an Empty
\* handle, before or after that completion, never terminates the program.
C9_DetachReleases ==
    [][ /\ \A h \in Handles :
             (last'.op = "detach" /\ last'.h = h) =>
                 /\ impl_[h] # nullptr /\ impl_'[h] = nullptr
                 /\ pc'.op = "idle" /\ aborted' = "none"
                 /\ impl_[h] \in sched'
                 /\ ctxs'[impl_[h]].terminated = ctxs[impl_[h]].terminated
                 /\ ctxs'[impl_[h]].rel = "detached"
        /\ \A c \in 1 .. Len(ctxs) :
             (Running /\ ctxs[c].rel = "detached" /\ ~ ctxs[c].terminated) =>
                 ENABLED FiberFinish(c)
        /\ \A c \in 1 .. Len(ctxs) :
             (last'.op = "run" /\ last'.o = c /\ ctxs[c].rel = "detached") =>
                 (impl_' = impl_ /\ live' = live /\ aborted' = "none")
        /\ (last'.op = "destroy" /\ impl_[last'.h] = nullptr) => aborted' = "none"
      ]_vars

\* C9 witness: a detached fiber has just finished after every handle had been
\* destroyed, and the program is still running.
C9_Witness ==
    /\ last.op = "run" /\ aborted = "none"
    /\ ctxs[last.o].rel = "detached" /\ ctxs[last.o].terminated
    /\ \A h \in Handles : ~ live[h]

InRegion(pl) ==
    /\ pl.top - pl.total <= pl.sp
    /\ pl.sp + func_size <= pl.top

\* C10 as stated: for every stack with size >= sizeof( fiber_context) the
\* placement address is a multiple of 64 and the object lies within the stack.
C10_Original ==
    (placed # NoPlacement /\ placed.total >= func_size) =>
        (placed.sp % func_alignment = 0 /\ InRegion(placed))

\* C10 amended: in the std::align branch the placement address is a multiple
\* of 64 and the object lies within the stack for every stack with
\* size >= sizeof( fiber_context) + 64; in the fallback branch the object lies
\* within the stack for every stack with size >= sizeof( fiber_context), and
\* its address is a multiple of 64 exactly when sp - sizeof( fiber_context) is.
C10_PlacementInRegion ==
    placed # NoPlacement =>
        /\ (has_align /\ placed.total >= func_size + func_alignment) =>
              (placed.sp % func_alignment = 0 /\ InRegion(placed))
        /\ (~ has_align /\ placed.total >= func_size) =>
              /\ InRegion(placed)
              /\ (placed.sp % func_alignment = 0)
                    <=> ((placed.top - func_size) % func_alignment = 0)

\* C10 witness: a stack of exactly sizeof( fiber_context) + 64 bytes whose
\* control block was placed at the very base of the stack.
C10_Witness ==
    /\ has_align /\ placed # NoPlacement
    /\ placed.total = func_size + func_alignment
    /\ placed.sp = placed.top - placed.total

\* C11: in both branches the size passed to the fiber_context equals the size
\* of the stack minus (top of stack - placement address) without wrap-around,
\* so that the executable stack [p - size, p) starts at the base of the stack;
\* in the fallback branch p = sp - sizeof( fiber_context) and
\* size = stack size - sizeof( fiber_context).
C11_ResidualSize ==
    (placed # NoPlacement /\ placed.sp # nullptr) =>
        /\ placed.size = placed.total - (placed.top - placed.sp)
        /\ placed.size >= 0
        /\ placed.sp - placed.size = placed.top - placed.total
        /\ ~ has_align =>
              /\ placed.sp = placed.top - func_size
              /\ placed.size = placed.total - func_size

\* C12: when the stack is too small for the placement, create() stops with a
\* failed assertion and constructs nothing.
C12_TooSmallAsserts ==
    (last.op = "ctor_create" /\ TooSmall(placed)) =>
        (aborted = "assert" /\ pc.op = "idle")

\* C15 as stated: in the std::align branch the placement address is
\* (top of stack - sizeof( fiber_context) - 64) rounded down to a multiple of 64.
C15_Original ==
    (has_align /\ placed # NoPlacement) =>
        placed.sp =
            ((placed.top - func_size - func_alignment) \div func_alignment)
                * func_alignment

\* C15 amended: in the std::align branch the placement address is
\* (top of stack - sizeof( fiber_context) - 64) rounded up to a multiple of 64:
\* the least multiple of 64 that is not below the bottom of the reserved window.
C15_AlignedUpward ==
    (has_align /\ placed # NoPlacement) =>
        LET bottom == placed.top - func_size - func_alignment
        IN  /\ placed.sp % func_alignment = 0
            /\ bottom <= placed.sp
            /\ placed.sp - bottom < func_alignment

\* C15 witness: a placement strictly above the bottom of the reserved window.
C15_Witness ==
    /\ has_align /\ placed # NoPlacement
    /\ placed.sp > placed.top - func_size - func_alignment
    /\ pc.op = "ctor"

\* C18: in the std::align branch std::align never returns nullptr, so the
\* assertion nullptr != sp never fails, and the placement address p satisfies
\* sizeof( fiber_context) < top of stack - p <= sizeof( fiber_context) + 64.
C18_AlignNeverFails ==
    /\ has_align => aborted # "assert"
    /\ (has_align /\ placed # NoPlacement) =>
          /\ placed.sp # nullptr
          /\ func_size < placed.top - placed.sp
          /\ placed.top - placed.sp <= func_size + func_alignment

\* C18 witness: a top of stack for which only one byte more than the control
\* block lies between the placement address and the top.
C18_Witness ==
    /\ has_align /\ placed # NoPlacement /\ aborted = "none"
    /\ placed.top - placed.sp = func_size + 1

\* C16 as stated: self-move-assignment is a no-op for every handle, Empty or
\* joinable: the program keeps running and the references are unchanged.
C16_Original ==
    [][ (last'.op = "move_assign" /\ last'.h = last'.o) =>
          (aborted' = "none" /\ impl_' = impl_)
      ]_vars

\* C16 amended: self-move-assignment of an Empty handle is a no-op (the program
\* keeps running, the handle is still Empty); self-move-assignment of a
\* joinable handle ends in std::terminate like any move-assignment into a
\* joinable destination; in both cases no handle's reference changes.
C16_SelfMoveAssign ==
    [][ \A h \in Handles :
          (last'.op = "move_assign" /\ last'.h = h /\ last'.o = h) =>
              /\ impl_' = impl_ /\ live' = live /\ ctxs' = ctxs
              /\ impl_[h] = nullptr => aborted' = "none"
              /\ impl_[h] # nullptr => aborted' = "terminate"
      ]_vars

\* C16 witness: a joinable handle was move-assigned to itself and the program
\* was terminated with the reference still in place.
C16_Witness ==
    /\ last.op = "move_assign" /\ last.h = last.o
    /\ impl_[last.h] # nullptr /\ aborted = "terminate"

\* C19: member swap and free swap exchange the references of their two
\* operands whatever they hold, never terminate the program, change no other
\* handle, no handle's lifetime and no fiber, and a second swap of the same
\* pair gives back the references held before the first.
C19_SwapExchanges ==
    [][ \A a \in Handles : \A b \in Handles :
          (last'.op \in SwapOps /\ last'.h = a /\ last'.o = b) =>
              /\ aborted' = "none"
              /\ impl_'[a] = impl_[b] /\ impl_'[b] = impl_[a]
              /\ \A k \in Handles \ {a, b} : impl_'[k] = impl_[k]
              /\ live' = live /\ ctxs' = ctxs /\ sched' = sched
              /\ [impl_' EXCEPT ![a] = impl_'[b], ![b] = impl_'[a]] = impl_
      ]_vars

\* C19 witness: member swap has just exchanged the references of two joinable
\* handles, one of them to a fiber that has already finished.
C19_Witness ==
    /\ last.op = "swap" /\ last.h # last.o /\ aborted = "none"
    /\ impl_[last.h] # nullptr /\ impl_[last.o] # nullptr
    /\ is_terminated(impl_[last.h]) /\ ~ is_terminated(impl_[last.o])

\* The internal states referenced by the handles im (and by the temporary p.tmp
\* a constructor holds between create() and the store).
Held(im, p) == ({ im[h] : h \in Handles } \cup {p.tmp}) \ {nullptr}

\* C20: while std::terminate is not reached, a reference leaves the set of
\* handles only in a step of detach() or join(), which releases a fiber not
\* released before; moves, swaps and destructions keep the set of referenced
\* fibers; a released fiber is never released again; and once no handle is
\* alive every fiber created has been detached or joined.
C20_NoSilentAbandonment ==
    [][ aborted' = "none" =>
          /\ \A c \in FiberIds :
               (c \in Held(impl_, pc) /\ c \notin Held(impl_', pc')) =>
                   /\ last'.op \in {"detach", "join"}
                   /\ ctxs[c].rel = "none" /\ ctxs'[c].rel \in {"detached", "joined"}
          /\ last'.op \in MoveOps \cup SwapOps \cup {"destroy"} =>
               Held(impl_', pc') = Held(impl_, pc)
          /\ \A c \in 1 .. Len(ctxs) :
               /\ ctxs[c].rel # "none" => ctxs'[c].rel = ctxs[c].rel
               /\ ctxs'[c].rel = "none" <=> c \in Held(impl_', pc')
          /\ (pc'.op = "idle" /\ \A h \in Handles : ~ live'[h]) =>
               \A c \in 1 .. Len(ctxs') : ctxs'[c].rel \in {"detached", "joined"}
      ]_vars

\* C20 witness: every handle has been destroyed, the program is running, and
\* of the two fibers created one was detached and the other joined.
C20_Witness ==
    /\ last.op = "destroy" /\ aborted = "none"
    /\ \A h \in Handles : ~ live[h]
    /\ Len(ctxs) = 2
    /\ \E c \in 1 .. 2 : \E d \in 1 .. 2 :
          ctxs[c].rel = "detached" /\ ctxs[d].rel = "joined"

\* C14: operator< on two handles is get_id(l) < get_id(r); a fiber finishing
\* changes no comparison; the relation is irreflexive and transitive; and
\* handles of different fibers have different non-sentinel ids, exactly one of
\* l < r and r < l holding between them.
C14_StrictTotalOrder ==
    [][ /\ \A l \in Handles : \A r \in Handles :
             operator_less(l, r) <=> (get_id(l) < get_id(r))
        /\ last'.op = "run" =>
             \A l \in Handles : \A r \in Handles :
                 operator_less(l, r)' <=> operator_less(l, r)
        /\ \A l \in Handles : ~ operator_less(l, l)
        /\ \A l \in Handles : \A m \in Handles : \A r \in Handles :
             (operator_less(l, m) /\ operator_less(m, r)) => operator_less(l, r)
        /\ \A l \in Handles : \A r \in Handles :
             (impl_[l] # nullptr /\ impl_[r] # nullptr /\ impl_[l] # impl_[r]) =>
                 /\ get_id(l) # no_id /\ get_id(r) # no_id
                 /\ get_id(l) # get_id(r)
                 /\ operator_less(l, r) <=> ~ operator_less(r, l)
      ]_vars

\* C14 witness: three handles hold three different fibers, ordered against
\* their slot order, and the fiber in the middle of the order has just finished.
C14_Witness ==
    /\ last.op = "run" /\ aborted = "none"
    /\ \E a \in Handles : \E b \in Handles : \E c \in Handles :
          /\ a > b /\ b > c
          /\ live[a] /\ live[b] /\ live[c]
          /\ operator_less(a, b) /\ operator_less(b, c)
          /\ impl_[b] = last.o /\ is_terminated(impl_[b])

PropOps == {"properties", "bad_cast"}

\* C13: properties< T >() on a handle that references an internal state: with
\* no property object attached the call stops with a failed assertion; with
\* an object whose dynamic type is not T and has no base T the call raises
\* instead of returning a reference; otherwise it returns; and in none of the
\* three cases does any handle's reference (or any fiber) change.
C13_PropertiesChecked ==
    [][ \A h \in Handles : \A T \in PropIds :
          ( /\ last'.op \in PropOps /\ last'.h = h /\ last'.o = T
            /\ impl_[h] # nullptr ) =>
              LET props == ctxs[impl_[h]].props
                  compatible ==
                      props = T \/ BaseOf[props] = T \/
                      (BaseOf[props] # nullptr /\ BaseOf[BaseOf[props]] = T)
              IN  /\ impl_' = impl_ /\ live' = live /\ ctxs' = ctxs
                  /\ props = nullptr =>
                        (aborted' = "assert" /\ last'.op = "properties")
                  /\ (props # nullptr /\ ~ compatible) =>
                        (aborted' = "none" /\ last'.op = "bad_cast")
                  /\ (props # nullptr /\ compatible) =>
                        (aborted' = "none" /\ last'.op = "properties")
      ]_vars

\* C13 witness: properties< T >() has just raised for a fiber whose property
\* object is of a class derived from fiber_properties but unrelated to T.
C13_Witness ==
    /\ last.op = "bad_cast" /\ aborted = "none"
    /\ impl_[last.h] # nullptr
    /\ ctxs[impl_[last.h]].props # nullptr
    /\ BaseOf[ctxs[impl_[last.h]].props] = BaseOf[last.o]
    /\ ctxs[impl_[last.h]].props # last.o

\* C17: properties< T >() on an Empty handle stops with a failed assertion.
C17_EmptyAsserts ==
    [][ (last'.op \in PropOps /\ impl_[last'.h] = nullptr) =>
          aborted' = "assert"
      ]_vars

====
